---- MODULE Spec2Model ----
(***************************************************************************)
(* Model of huggingface_utils.py: the access-time index, the space         *)
(* reclaimer, the repository metadata cache, the string miner and the      *)
(* download orchestrator.                                                  *)
(*                                                                         *)
(* Strings and paths are sequences of one-character strings, so that       *)
(* strip, basename, join and startswith are computed as Python computes    *)
(* them.  Sizes and free space are counted in GiB.                         *)
(***************************************************************************)
EXTENDS Integers, Sequences, FiniteSets, TLC

\* ------------------------------------------------------------------ bounds
MaxClock == 3   \* time.time() takes the values 0..MaxClock
MaxEnv == 1     \* file creations/deletions by other programs in one behaviour
MaxWidth == 2   \* elements of a list or dict of MineInputs

\* --------------------------------------------------------------- constants
MINIMUM_FREE_SPACE_GB == 10

\* minimum_free as it would be with one factor of 1024 too many
minimum_free_kib == MINIMUM_FREE_SPACE_GB * 1024

\* One unit of size is 1 GiB, so 1024 * 1024 * 1024 bytes count as 1.
minimum_free == MINIMUM_FREE_SPACE_GB * 1

\* os.path.join(os.path.dirname(os.path.abspath(__file__)), "models")
local_base_dir == <<"/", "m">>

\* ------------------------------------------------------- string primitives
Whitespace == {" ", "\t", "\n", "\r", "\f"}

\* ord(ch) of the characters that occur in paths
Ord(ch) ==
    CASE ch = "/" -> 47
      [] ch = "2" -> 50
      [] ch = "a" -> 97
      [] ch = "b" -> 98
      [] ch = "m" -> 109
      [] ch = "s" -> 115
      [] ch = "w" -> 119
      [] ch = "x" -> 120
      [] OTHER -> 32

RECURSIVE lstrip(_)
lstrip(s) ==
    IF s # <<>> /\ s[1] \in Whitespace THEN lstrip(Tail(s)) ELSE s

RECURSIVE rstrip(_)
rstrip(s) ==
    IF s # <<>> /\ s[Len(s)] \in Whitespace
    THEN rstrip(SubSeq(s, 1, Len(s) - 1))
    ELSE s

\* str.strip()
strip(s) == rstrip(lstrip(s))

\* str.startswith(prefix)
startswith(s, prefix) ==
    Len(s) >= Len(prefix) /\ SubSeq(s, 1, Len(prefix)) = prefix

\* str.endswith(suffix)
endswith(s, suffix) ==
    Len(s) >= Len(suffix)
       /\ SubSeq(s, Len(s) - Len(suffix) + 1, Len(s)) = suffix

\* os.path.basename(f): what follows the last "/"
basename(f) ==
    LET slashes == {i \in 1..Len(f) : f[i] = "/"}
    IN  IF slashes = {} THEN f
        ELSE LET last == CHOOSE i \in slashes : \A j \in slashes : j <= i
             IN  SubSeq(f, last + 1, Len(f))

\* os.path.join(a, b)
join(a, b) ==
    IF b # <<>> /\ b[1] = "/" THEN b
    ELSE IF a = <<>> \/ a[Len(a)] = "/" THEN a \o b
    ELSE a \o <<"/">> \o b

\* Python's < on strings
RECURSIVE StrLess(_, _)
StrLess(s, t) ==
    IF t = <<>> THEN FALSE
    ELSE IF s = <<>> THEN TRUE
    ELSE IF s[1] = t[1] THEN StrLess(Tail(s), Tail(t))
    ELSE Ord(s[1]) < Ord(t[1])

\* Python's <= on (access_time, file_path) tuples
TupleLE(x, y) ==
    \/ x[1] < y[1]
    \/ x[1] = y[1] /\ (x[2] = y[2] \/ StrLess(x[2], y[2]))

\* ------------------------------------------------------------ the world
\* Repository ids and what api.model_info(repo_id, files_metadata=True)
\* lists for each: sibling.rfilename and sibling.size, in listing order.
Repos == {"r1", "r2"}

Siblings(repo_id) ==
    IF repo_id = "r1"
    THEN << [rfilename |-> <<"a">>,           size |-> 2],
            [rfilename |-> <<"w", "/", "b">>, size |-> 4],
            [rfilename |-> <<"x", "/", "a">>, size |-> 1] >>
    ELSE << [rfilename |-> <<"w", "/", "b">>, size |-> 4] >>

\* A file of the cache root that no repository lists, and a file of the
\* sibling directory /m2, whose path has the string /m as a prefix.
StrayPath == <<"/", "m", "/", "s">>
SiblingPath == <<"/", "m", "2", "/", "x">>

NSiblings(repo_id) == Len(Siblings(repo_id))

RepoPaths ==
    UNION { {join(local_base_dir, Siblings(r)[i].rfilename) :
                i \in 1..NSiblings(r)} : r \in Repos }

AllPaths == RepoPaths \cup {StrayPath, SiblingPath}

AllSiblings ==
    UNION { {Siblings(r)[i] : i \in 1..NSiblings(r)} : r \in Repos }

\* os.path.getsize(file_path): a repository file has its listed size
getsize(file_path) ==
    IF file_path = StrayPath THEN 2
    ELSE IF file_path = SiblingPath THEN 1
    ELSE LET sib == CHOOSE x \in AllSiblings :
                        join(local_base_dir, x.rfilename) = file_path
         IN  sib.size

\* os.walk(local_base_dir) yields the files below the directory itself
UnderRoot(file_path) == startswith(file_path, local_base_dir \o <<"/">>)

\* ---------------------------------------------------------- input objects
\* A JSON-like value: dict (keys, kids), list (kids), str (s), or another
\* scalar (num, bool, null).
Str(s) == [t |-> "str", s |-> s, keys |-> <<>>, kids |-> <<>>]
Scalar(t) == [t |-> t, s |-> <<>>, keys |-> <<>>, kids |-> <<>>]
List(kids) == [t |-> "list", s |-> <<>>, keys |-> <<>>, kids |-> kids]
Dict(keys, kids) == [t |-> "dict", s |-> <<>>, keys |-> keys, kids |-> kids]

Inputs ==
    { Dict(<< <<"b">>, <<"a">> >>, <<Scalar("num"), List(<<Str(<<" ">>)>>)>>),
      Dict(<< <<"a">> >>, <<Str(<<"b">>)>>),
      List(<<Str(<<"a">>), Dict(<< <<"s">> >>, <<Str(<<"b">>)>>),
             Scalar("null")>>),
      List(<<Str(<<"b">>), Str(<<" ", "a">>), Scalar("bool")>>),
      List(<<Str(<<>>), List(<<>>)>>) }

\* The objects the string miner is run on: the leaves, the lists and dicts
\* of up to MaxWidth leaves, and the lists and dicts that hold such a
\* list or dict, alone or followed by a leaf.
StrPool == { <<>>, <<" ">>, <<"a">>, <<" ", "b", "\t">> }

Leaves ==
    {Str(x) : x \in StrPool} \cup {Scalar("num"), Scalar("bool"), Scalar("null")}

\* the keys of a dict of n items
KeysFor(n) == SubSeq(<< <<"a">>, <<"b">>, <<"c">>, <<"d">> >>, 1, n)

Containers(kidsets) ==
    {List(k) : k \in kidsets} \cup {Dict(KeysFor(Len(k)), k) : k \in kidsets}

Flat == Containers(UNION {[1..n -> Leaves] : n \in 0..MaxWidth})

Nested ==
    Containers({<<x>> : x \in Flat} \cup
               {<<x, y>> : x \in Flat, y \in Leaves})

MineInputs == Leaves \cup Flat \cup Nested

\* find_all_strings as it would be if it added data.strip()
RECURSIVE find_all_strings_trimmed(_)
find_all_strings_trimmed(data) ==
    IF data.t = "dict" \/ data.t = "list"
    THEN UNION {find_all_strings_trimmed(data.kids[i]) :
                   i \in 1..Len(data.kids)}
    ELSE IF data.t = "str"
    THEN IF strip(data.s) # <<>> THEN {strip(data.s)} ELSE {}
    ELSE {}

\* find_all_strings(data), the set it returns
RECURSIVE find_all_strings(_)
find_all_strings(data) ==
    IF data.t = "dict" \/ data.t = "list"
    THEN UNION {find_all_strings(data.kids[i]) : i \in 1..Len(data.kids)}
    ELSE IF data.t = "str"
    THEN IF strip(data.s) # <<>> THEN {data.s} ELSE {}
    ELSE {}

\* the orders in which a Python set may be iterated
Orders(S) ==
    {o \in [1..Cardinality(S) -> S] : \A x \in S : \E i \in DOMAIN o : o[i] = x}

\* ------------------------------------------------------------ dictionaries
Put(f, k, v) == [x \in DOMAIN f \cup {k} |-> IF x = k THEN v ELSE f[x]]
Drop(f, K) == [x \in DOMAIN f \ K |-> f[x]]
EmptyDict == [x \in {} |-> 0]
Range(seq) == {seq[i] : i \in 1..Len(seq)}

\* ------------------------------------------------------------------- state
Procs == {"p1", "p2"}

VARIABLES
    files,                  \* the paths that exist on disk
    atime,                  \* the access time the filesystem holds for each
    free,                   \* shutil.disk_usage(...).free
    clock,                  \* time.time()
    file_access_times,      \* _file_access_times
    repo_files_cache,       \* _repo_files_cache
    repo_file_sizes_cache,  \* _repo_file_sizes_cache
    pc,                     \* where each download_models invocation stands
    obj,                    \* its obj argument
    repo,                   \* its repo_id argument
    todo,                   \* what the for loop over all_strings has left
    downloaded_paths,       \* its downloaded_paths
    cur,                    \* the filename its hf_hub_download is fetching
    running,                \* the invocation the event loop is executing
    log,                    \* per invocation: the calls it has made
    listed,                 \* per invocation: the repo_id of each
                            \* api.model_info call it made
    env,                    \* file changes made by other programs
    again                   \* per invocation: <<the set of paths the call
                            \* before it returned>> when it repeats that
                            \* call with nothing in between, else <<>>

vars == <<files, atime, free, clock, file_access_times, repo_files_cache,
          repo_file_sizes_cache, pc, obj, repo, todo, downloaded_paths, cur,
          running, log, listed, env, again>>

\* the filesystem and the index, as the functions below read and write them
Disk == [files |-> files, atime |-> atime, free |-> free,
         idx |-> file_access_times]

\* the metadata caches
Meta == [files_cache |-> repo_files_cache,
         sizes_cache |-> repo_file_sizes_cache,
         asked |-> <<>>]

Event(c, op, path, n) ==
    [c |-> c, op |-> op, path |-> path, n |-> n, free |-> 0, del |-> <<>>]

\* ------------------------------------------------------ AccessTimeTracker
\* initialize_access_times as it would be if it walked the parent directory
\* of local_base_dir: it records every file on disk
initialize_walks_parent(d) ==
    [d EXCEPT !.idx = [f \in DOMAIN d.idx \cup d.files |->
                          IF f \in d.files THEN d.atime[f] ELSE d.idx[f]]]

\* initialize_access_times().  os.walk of a directory that does not exist
\* yields nothing, so the early return is the walk of no file.
initialize_access_times(d) ==
    LET walked == {f \in d.files : UnderRoot(f)}
    IN  [d EXCEPT !.idx = [f \in DOMAIN d.idx \cup walked |->
                              IF f \in walked THEN d.atime[f] ELSE d.idx[f]]]

\* update_access_time as it would be without line 28
update_access_time_utime_only(d, file_path, now) ==
    [d EXCEPT !.atime = IF file_path \in d.files
                        THEN Put(d.atime, file_path, now) ELSE @]

\* update_access_time(file_path) at time.time() = now
update_access_time(d, file_path, now) ==
    [d EXCEPT !.idx = Put(d.idx, file_path, now),
              !.atime = IF file_path \in d.files
                        THEN Put(d.atime, file_path, now) ELSE @]

\* --------------------------------------------------------- SpaceReclaimer
\* sort as it would be if the tuples were (file_path, access_time): the
\* path decides the order
RECURSIVE sort_by_path(_)
sort_by_path(S) ==
    IF S = {} THEN <<>>
    ELSE LET least == CHOOSE x \in S :
                         \A y \in S : x[2] = y[2] \/ StrLess(x[2], y[2])
         IN  <<least>> \o sort_by_path(S \ {least})

\* list.sort() of a list of (access_time, file_path) tuples
RECURSIVE sort(_)
sort(S) ==
    IF S = {} THEN <<>>
    ELSE LET least == CHOOSE x \in S : \A y \in S : TupleLE(x, y)
         IN  <<least>> \o sort(S \ {least})

\* files_with_times as it would be if it were built from a walk of
\* local_base_dir, with the access time of the disk for a file that the
\* index does not hold
files_with_times_walked(d) ==
    sort({<<IF f \in DOMAIN d.idx THEN d.idx[f] ELSE d.atime[f], f>> :
            f \in {g \in d.files : startswith(g, local_base_dir)}})

\* files_with_times after lines 47-51
files_with_times(d) ==
    sort({<<d.idx[f], f>> :
            f \in {g \in DOMAIN d.idx :
                     g \in d.files /\ startswith(g, local_base_dir)}})

\* the loop of lines 54-62 as it would be without lines 55-56
RECURSIVE EvictLoop_no_break(_, _, _, _, _)
EvictLoop_no_break(fwt, i, freed_space, space_to_free, failAt) ==
    IF i > Len(fwt)
    THEN [n |-> i - 1, freed |-> freed_space, raised |-> FALSE]
    ELSE IF i = failAt
    THEN [n |-> i - 1, freed |-> freed_space, raised |-> TRUE]
    ELSE EvictLoop_no_break(fwt, i + 1, freed_space + getsize(fwt[i][2]),
                            space_to_free, failAt)

\* The loop of lines 54-62 from its i-th tuple on.  failAt is the tuple at
\* which os.path.getsize or os.remove raises (0: none does).
RECURSIVE EvictLoop(_, _, _, _, _)
EvictLoop(fwt, i, freed_space, space_to_free, failAt) ==
    IF i > Len(fwt) \/ freed_space >= space_to_free
    THEN [n |-> i - 1, freed |-> freed_space, raised |-> FALSE]
    ELSE IF i = failAt
    THEN [n |-> i - 1, freed |-> freed_space, raised |-> TRUE]
    ELSE EvictLoop(fwt, i + 1, freed_space + getsize(fwt[i][2]),
                   space_to_free, failAt)

\* delete_old_files_until_space as it would be without line 60
delete_old_files_keeps_entries(d, required_bytes, failAt) ==
    LET needed_space == required_bytes + minimum_free
    IN  IF d.free >= needed_space
        THEN [d |-> d, deleted |-> <<>>, raised |-> FALSE]
        ELSE LET fwt == files_with_times(d)
                 r == EvictLoop(fwt, 1, 0, needed_space - d.free, failAt)
                 deleted == [i \in 1..r.n |-> fwt[i][2]]
                 gone == {deleted[i] : i \in 1..r.n}
             IN  [d |-> [files |-> d.files \ gone,
                         atime |-> Drop(d.atime, gone),
                         free |-> d.free + r.freed,
                         idx |-> d.idx],
                  deleted |-> deleted,
                  raised |-> r.raised]

\* delete_old_files_until_space as it would be with line 60 before line
\* 58: the entry of the file at which the filesystem raises is gone too
delete_old_files_entry_first(d, required_bytes, failAt) ==
    LET needed_space == required_bytes + minimum_free
    IN  IF d.free >= needed_space
        THEN [d |-> d, deleted |-> <<>>, raised |-> FALSE]
        ELSE LET fwt == files_with_times(d)
                 r == EvictLoop(fwt, 1, 0, needed_space - d.free, failAt)
                 deleted == [i \in 1..r.n |-> fwt[i][2]]
                 gone == {deleted[i] : i \in 1..r.n}
                 tried == IF r.raised THEN {fwt[r.n + 1][2]} ELSE {}
             IN  [d |-> [files |-> d.files \ gone,
                         atime |-> Drop(d.atime, gone),
                         free |-> d.free + r.freed,
                         idx |-> Drop(d.idx, gone \cup tried)],
                  deleted |-> deleted,
                  raised |-> r.raised]

\* delete_old_files_until_space(target_dir, required_bytes)
delete_old_files_until_space(d, required_bytes, failAt) ==
    LET needed_space == required_bytes + minimum_free
    IN  IF d.free >= needed_space
        THEN [d |-> d, deleted |-> <<>>, raised |-> FALSE]
        ELSE LET fwt == files_with_times(d)
                 r == EvictLoop(fwt, 1, 0, needed_space - d.free, failAt)
                 deleted == [i \in 1..r.n |-> fwt[i][2]]
                 gone == {deleted[i] : i \in 1..r.n}
             IN  [d |-> [files |-> d.files \ gone,
                         atime |-> Drop(d.atime, gone),
                         free |-> d.free + r.freed,
                         idx |-> Drop(d.idx, gone)],
                  deleted |-> deleted,
                  raised |-> r.raised]

\* ------------------------------------------------------ RepoMetadataCache
\* list_huggingface_repo_files as it would be without line 98
list_without_sizes(m, repo_id, ok) ==
    LET sibs == Siblings(repo_id)
        files_list == [i \in 1..Len(sibs) |-> sibs[i].rfilename]
        asked == [m EXCEPT !.asked = Append(@, repo_id)]
    IN  IF ok
        THEN [m |-> asked, ret |-> files_list, raised |-> FALSE]
        ELSE [m |-> asked, ret |-> <<>>, raised |-> TRUE]

\* list_huggingface_repo_files(repo_id); ok: api.model_info does not raise
list_huggingface_repo_files(m, repo_id, ok) ==
    LET sibs == Siblings(repo_id)
        files_list == [i \in 1..Len(sibs) |-> sibs[i].rfilename]
        sizes_dict == [f \in {sibs[i].rfilename : i \in 1..Len(sibs)} |->
                          (CHOOSE x \in {sibs[i] : i \in 1..Len(sibs)} :
                               x.rfilename = f).size]
        asked == [m EXCEPT !.asked = Append(@, repo_id)]
    IN  IF ok
        THEN [m |-> [asked EXCEPT !.sizes_cache =
                                      Put(@, repo_id, sizes_dict)],
              ret |-> files_list, raised |-> FALSE]
        ELSE [m |-> asked, ret |-> <<>>, raised |-> TRUE]

\* get_repo_files as it would be if it never took the cached list
get_repo_files_uncached(m, repo_id, ok) ==
    LET l == list_huggingface_repo_files(m, repo_id, ok)
    IN  IF l.raised THEN l
        ELSE [m |-> [l.m EXCEPT !.files_cache = Put(@, repo_id, l.ret)],
              ret |-> l.ret, raised |-> FALSE]

\* get_repo_files as it would be if it stored an empty list for a repo_id
\* whose listing raised, before letting the exception through
get_repo_files_caches_failure(m, repo_id, ok) ==
    IF repo_id \notin DOMAIN m.files_cache
    THEN LET l == list_huggingface_repo_files(m, repo_id, ok)
         IN  [m |-> [l.m EXCEPT !.files_cache = Put(@, repo_id, l.ret)],
              ret |-> l.ret, raised |-> l.raised]
    ELSE [m |-> m, ret |-> m.files_cache[repo_id], raised |-> FALSE]

\* get_repo_files(repo_id)
get_repo_files(m, repo_id, ok) ==
    IF repo_id \notin DOMAIN m.files_cache
    THEN LET l == list_huggingface_repo_files(m, repo_id, ok)
         IN  IF l.raised THEN l
             ELSE [m |-> [l.m EXCEPT !.files_cache =
                                         Put(@, repo_id, l.ret)],
                   ret |-> l.ret, raised |-> FALSE]
    ELSE [m |-> m, ret |-> m.files_cache[repo_id], raised |-> FALSE]

\* get_file_size as it would be if it looked the basename up
get_file_size_by_basename(m, repo_id, filename, ok) ==
    LET g == IF repo_id \notin DOMAIN m.sizes_cache
             THEN get_repo_files(m, repo_id, ok)
             ELSE [m |-> m, ret |-> <<>>, raised |-> FALSE]
    IN  IF g.raised \/ repo_id \notin DOMAIN g.m.sizes_cache
        THEN [m |-> g.m, ret |-> 0, raised |-> TRUE]
        ELSE [m |-> g.m,
              ret |-> IF basename(filename) \in
                             DOMAIN g.m.sizes_cache[repo_id]
                      THEN g.m.sizes_cache[repo_id][basename(filename)]
                      ELSE 0,
              raised |-> FALSE]

\* get_file_size(repo_id, filename); it raises KeyError when the size cache
\* still lacks repo_id after get_repo_files
get_file_size(m, repo_id, filename, ok) ==
    LET g == IF repo_id \notin DOMAIN m.sizes_cache
             THEN get_repo_files(m, repo_id, ok)
             ELSE [m |-> m, ret |-> <<>>, raised |-> FALSE]
    IN  IF g.raised \/ repo_id \notin DOMAIN g.m.sizes_cache
        THEN [m |-> g.m, ret |-> 0, raised |-> TRUE]
        ELSE [m |-> g.m,
              ret |-> IF filename \in DOMAIN g.m.sizes_cache[repo_id]
                      THEN g.m.sizes_cache[repo_id][filename] ELSE 0,
              raised |-> FALSE]

\* --------------------------------------------------- DownloadOrchestrator
\* the list l from its last element to its first
Reversed(l) == [i \in 1..Len(l) |-> l[Len(l) + 1 - i]]

\* matches as it would be if it ran through repo_files from the end
matches_from_end(repo_files, potential_filename) ==
    SelectSeq(Reversed(repo_files),
              LAMBDA f : basename(f) = potential_filename)

\* matches = [f for f in repo_files if os.path.basename(f) == potential_filename]
matches(repo_files, potential_filename) ==
    SelectSeq(repo_files, LAMBDA f : basename(f) = potential_filename)

safetensors ==
    <<".", "s", "a", "f", "e", "t", "e", "n", "s", "o", "r", "s">>

\* what lines 178-185 give to logging.warning for a candidate: nothing,
\* the missing safetensors file, or the number of matches and the first
warnings(found, potential_filename) ==
    IF found = <<>>
    THEN IF endswith(potential_filename, safetensors)
         THEN << Event(potential_filename, "warning", <<>>, 0) >>
         ELSE <<>>
    ELSE IF Len(found) > 1
    THEN << Event(potential_filename, "warning", found[1], Len(found)) >>
    ELSE <<>>

\* download_huggingface_model up to its await: get_file_size, then
\* delete_old_files_until_space(local_base_dir, file_size_bytes)
download_begin(d, m, repo_id, filename, ok, failAt) ==
    LET sz == get_file_size(m, repo_id, filename, ok)
        ev == delete_old_files_until_space(d, sz.ret, failAt)
    IN  IF sz.raised
        THEN [d |-> d, m |-> sz.m, size |-> 0, called |-> FALSE,
              deleted |-> <<>>, raised |-> TRUE]
        ELSE [d |-> ev.d, m |-> sz.m, size |-> sz.ret, called |-> TRUE,
              deleted |-> ev.deleted, raised |-> ev.raised]

\* hf_hub_download(repo_id, filename, local_dir=local_base_dir) when it
\* succeeds at time now: the file is at local_dir/filename afterwards
hf_hub_download(d, filename, now) ==
    LET file_path == join(local_base_dir, filename)
    IN  [d |-> IF file_path \in d.files THEN d
               ELSE [d EXCEPT !.files = @ \cup {file_path},
                              !.atime = Put(@, file_path, now),
                              !.free = @ - getsize(file_path)],
         ret |-> file_path]

\* whether the transfer can succeed: the bytes fit on the disk
CanFetch(d, filename) ==
    LET file_path == join(local_base_dir, filename)
    IN  file_path \in d.files \/ d.free >= getsize(file_path)

\* download_huggingface_model after its await: update_access_time(file_path)
download_end(d, file_path, now) == update_access_time(d, file_path, now)

\* The for loop of lines 175-198 run to its end at one time.time() = now,
\* with no exception from the listing or the filesystem.  cs holds the
\* disk, the caches, downloaded_paths (res), the filenames given to
\* hf_hub_download (fetched) and whether the loop ended by an exception.
RECURSIVE loop_run(_, _, _, _, _)
loop_run(cs, repo_files, repo_id, rest, now) ==
    IF rest = <<>> \/ cs.raised THEN cs
    ELSE LET found == matches(repo_files, Head(rest))
             repo_file_path == found[1]
             local_file_path == join(local_base_dir, repo_file_path)
             b == download_begin(cs.d, cs.m, repo_id, repo_file_path,
                                 TRUE, 0)
             h == hf_hub_download(b.d, repo_file_path, now)
         IN  IF found = <<>>
             THEN loop_run(cs, repo_files, repo_id, Tail(rest), now)
             ELSE IF local_file_path \in cs.d.files
             THEN loop_run([cs EXCEPT
                              !.d = update_access_time(@, local_file_path,
                                                       now),
                              !.res = Append(@, local_file_path)],
                           repo_files, repo_id, Tail(rest), now)
             ELSE IF b.raised \/ ~CanFetch(b.d, repo_file_path)
             THEN [cs EXCEPT !.d = b.d, !.m = b.m, !.raised = TRUE]
             ELSE loop_run([d |-> download_end(h.d, h.ret, now),
                            m |-> b.m,
                            res |-> Append(cs.res, h.ret),
                            fetched |-> Append(cs.fetched, repo_file_path),
                            raised |-> FALSE],
                           repo_files, repo_id, Tail(rest), now)

\* download_models(o, repo_id) run from start to return on the disk d and
\* the caches m, iterating all_strings in the given order
download_models_run(d, m, o, repo_id, order, now) ==
    LET g == get_repo_files(m, repo_id, TRUE)
        start == [d |-> d, m |-> m, res |-> <<>>, fetched |-> <<>>,
                  raised |-> FALSE]
    IN  IF find_all_strings(o) = {} THEN start
        ELSE loop_run([start EXCEPT !.m = g.m], g.ret, repo_id, order, now)

\* ------------------------------------------------------------------ Init
NoObj == Scalar("null")

InitFiles == {join(local_base_dir, <<"a">>), StrayPath, SiblingPath}
InitATime == [f \in InitFiles |-> IF f = StrayPath THEN 1 ELSE 0]
InitFree == {11}

Init ==
    /\ files = InitFiles
    /\ atime = InitATime
    /\ free \in InitFree
    /\ clock = 2
    /\ file_access_times = EmptyDict
    /\ repo_files_cache = EmptyDict
    /\ repo_file_sizes_cache = EmptyDict
    /\ pc = [p \in Procs |-> "idle"]
    /\ obj = [p \in Procs |-> NoObj]
    /\ repo = [p \in Procs |-> "r1"]
    /\ todo = [p \in Procs |-> <<>>]
    /\ downloaded_paths = [p \in Procs |-> <<>>]
    /\ cur = [p \in Procs |-> <<>>]
    /\ running = "none"
    /\ log = [p \in Procs |-> <<>>]
    /\ listed = [p \in Procs |-> <<>>]
    /\ env = 0
    /\ again = [p \in Procs |-> <<>>]

\* --------------------------------------------------------------- actions
diskvars == <<files, atime, free, file_access_times>>
metavars == <<repo_files_cache, repo_file_sizes_cache>>
callvars == <<pc, obj, repo, todo, downloaded_paths, cur, running, log,
              listed>>

NoRepeat == [p \in Procs |-> <<>>]

SetDisk(d) ==
    /\ files' = d.files
    /\ atime' = d.atime
    /\ free' = d.free
    /\ file_access_times' = d.idx

SetMeta(p, m) ==
    /\ repo_files_cache' = m.files_cache
    /\ repo_file_sizes_cache' = m.sizes_cache
    /\ listed' = [listed EXCEPT ![p] = @ \o m.asked]

\* initialize_access_times(), called while no invocation is executing
Initialize ==
    /\ running = "none"
    /\ SetDisk(initialize_access_times(Disk))
    /\ again' = NoRepeat
    /\ UNCHANGED <<clock, metavars, callvars, env>>

\* download_models as it would be with line 169 before line 163: the
\* listing is asked for before all_strings is looked at
Start_lists_first(p, o, r, prior) ==
    /\ running = "none"
    /\ obj' = [obj EXCEPT ![p] = o]
    /\ repo' = [repo EXCEPT ![p] = r]
    /\ downloaded_paths' = [downloaded_paths EXCEPT ![p] = <<>>]
    /\ log' = [log EXCEPT ![p] = <<>>]
    /\ again' = [again EXCEPT ![p] = prior]
    /\ \E ok \in BOOLEAN :
         LET all_strings == find_all_strings(o)
             g == get_repo_files(Meta, r, ok)
         IN  /\ repo_files_cache' = g.m.files_cache
             /\ repo_file_sizes_cache' = g.m.sizes_cache
             /\ listed' = [listed EXCEPT ![p] = g.m.asked]
             /\ IF g.raised
                THEN /\ pc' = [pc EXCEPT ![p] = "failed"]
                     /\ UNCHANGED <<todo, running>>
                ELSE IF all_strings = {}
                THEN /\ pc' = [pc EXCEPT ![p] = "done"]
                     /\ UNCHANGED <<todo, running>>
                ELSE /\ pc' = [pc EXCEPT ![p] = "loop"]
                     /\ running' = p
                     /\ \E order \in Orders(all_strings) :
                            todo' = [todo EXCEPT ![p] = order]
    /\ UNCHANGED <<diskvars, clock, cur, env>>

\* download_models(o, r) from its start to the for loop (lines 161-173),
\* or to its early return or to the exception of the listing
Start(p, o, r, prior) ==
    /\ running = "none"
    /\ obj' = [obj EXCEPT ![p] = o]
    /\ repo' = [repo EXCEPT ![p] = r]
    /\ downloaded_paths' = [downloaded_paths EXCEPT ![p] = <<>>]
    /\ log' = [log EXCEPT ![p] = <<>>]
    /\ again' = [again EXCEPT ![p] = prior]
    /\ \E ok \in BOOLEAN :
         LET all_strings == find_all_strings(o)
             g == get_repo_files(Meta, r, ok)
         IN  IF all_strings = {}
             THEN /\ pc' = [pc EXCEPT ![p] = "done"]
                  /\ listed' = [listed EXCEPT ![p] = <<>>]
                  /\ UNCHANGED <<todo, running, metavars>>
             ELSE /\ repo_files_cache' = g.m.files_cache
                  /\ repo_file_sizes_cache' = g.m.sizes_cache
                  /\ listed' = [listed EXCEPT ![p] = g.m.asked]
                  /\ IF g.raised
                     THEN /\ pc' = [pc EXCEPT ![p] = "failed"]
                          /\ UNCHANGED <<todo, running>>
                     ELSE /\ pc' = [pc EXCEPT ![p] = "loop"]
                          /\ running' = p
                          /\ \E order \in Orders(all_strings) :
                                 todo' = [todo EXCEPT ![p] = order]
    /\ UNCHANGED <<diskvars, clock, cur, env>>

\* the application calls download_models(obj, repo_id)
Call(p) ==
    /\ pc[p] = "idle"
    /\ \E o \in Inputs, r \in Repos : Start(p, o, r, <<>>)

\* the application, having the result of a call, makes the same call again
CallAgain(p) ==
    /\ pc[p] = "done"
    /\ Start(p, obj[p], repo[p], <<Range(downloaded_paths[p])>>)

\* line 200: the for loop is over and download_models returns
Return(p) ==
    /\ pc[p] = "loop"
    /\ running = p
    /\ todo[p] = <<>>
    /\ pc' = [pc EXCEPT ![p] = "done"]
    /\ running' = "none"
    /\ UNCHANGED <<diskvars, metavars, clock, obj, repo, todo,
                   downloaded_paths, cur, log, listed, env, again>>

\* lines 176-181: a candidate that matches no repository file is skipped
Skip(p) ==
    /\ pc[p] = "loop"
    /\ running = p
    /\ todo[p] # <<>>
    /\ matches(repo_files_cache[repo[p]], Head(todo[p])) = <<>>
    /\ log' = [log EXCEPT ![p] = @ \o warnings(<<>>, Head(todo[p]))]
    /\ todo' = [todo EXCEPT ![p] = Tail(@)]
    /\ UNCHANGED <<diskvars, metavars, clock, pc, obj, repo,
                   downloaded_paths, cur, running, listed, env, again>>

\* lines 187-194: the matched file exists locally
Hit(p) ==
    /\ pc[p] = "loop"
    /\ running = p
    /\ todo[p] # <<>>
    /\ matches(repo_files_cache[repo[p]], Head(todo[p])) # <<>>
    /\ LET potential_filename == Head(todo[p])
           repo_file_path ==
               matches(repo_files_cache[repo[p]], potential_filename)[1]
           local_file_path == join(local_base_dir, repo_file_path)
       IN  /\ local_file_path \in files
           /\ SetDisk(update_access_time(Disk, local_file_path, clock))
           /\ downloaded_paths' = [downloaded_paths EXCEPT
                                      ![p] = Append(@, local_file_path)]
           /\ log' = [log EXCEPT ![p] = @ \o
                  warnings(matches(repo_files_cache[repo[p]],
                                   potential_filename),
                           potential_filename) \o
                  << Event(potential_filename, "touch", local_file_path, 0),
                     Event(potential_filename, "append", local_file_path,
                           0) >>]
    /\ todo' = [todo EXCEPT ![p] = Tail(@)]
    /\ UNCHANGED <<metavars, clock, pc, obj, repo, cur, running, listed, env,
                   again>>

\* the miss branch as it would be with one download in flight per file:
\* while another invocation is downloading the file, this one calls
\* neither delete_old_files_until_space nor hf_hub_download and awaits
\* that download
Miss_single_flight(p) ==
    /\ pc[p] = "loop"
    /\ running = p
    /\ todo[p] # <<>>
    /\ matches(repo_files_cache[repo[p]], Head(todo[p])) # <<>>
    /\ LET potential_filename == Head(todo[p])
           repo_file_path ==
               matches(repo_files_cache[repo[p]], potential_filename)[1]
           local_file_path == join(local_base_dir, repo_file_path)
           in_flight == \E q \in Procs \ {p} :
                           /\ pc[q] = "fetching"
                           /\ repo[q] = repo[p]
                           /\ cur[q] = repo_file_path
       IN  /\ local_file_path \notin files
           /\ \E ok \in BOOLEAN, failAt \in 0..Cardinality(AllPaths) :
                LET b == IF in_flight
                         THEN [d |-> Disk, m |-> Meta, size |-> 0,
                               called |-> FALSE, deleted |-> <<>>,
                               raised |-> FALSE]
                         ELSE download_begin(Disk, Meta, repo[p],
                                             repo_file_path, ok, failAt)
                IN  /\ SetDisk(b.d)
                    /\ SetMeta(p, b.m)
                    /\ log' = [log EXCEPT ![p] = @ \o
                           warnings(matches(repo_files_cache[repo[p]],
                                            potential_filename),
                                    potential_filename) \o
                           (IF b.called
                            THEN << [c |-> potential_filename,
                                     op |-> "ensure_space", path |-> <<>>,
                                     n |-> b.size, free |-> free,
                                     del |-> b.deleted] >>
                            ELSE <<>>) \o
                           IF b.raised \/ in_flight THEN <<>>
                           ELSE << Event(potential_filename, "fetch",
                                         repo_file_path, 0) >>]
                    /\ IF b.raised
                       THEN /\ pc' = [pc EXCEPT ![p] = "failed"]
                            /\ UNCHANGED cur
                       ELSE /\ pc' = [pc EXCEPT ![p] = "fetching"]
                            /\ cur' = [cur EXCEPT ![p] = repo_file_path]
    /\ running' = "none"
    /\ UNCHANGED <<clock, obj, repo, todo, downloaded_paths, env, again>>

\* lines 195-197 and 113-122: the matched file does not exist locally;
\* download_huggingface_model runs up to the await of hf_hub_download, or
\* to the exception that get_file_size or the eviction raises
Miss(p) ==
    /\ pc[p] = "loop"
    /\ running = p
    /\ todo[p] # <<>>
    /\ matches(repo_files_cache[repo[p]], Head(todo[p])) # <<>>
    /\ LET potential_filename == Head(todo[p])
           repo_file_path ==
               matches(repo_files_cache[repo[p]], potential_filename)[1]
           local_file_path == join(local_base_dir, repo_file_path)
       IN  /\ local_file_path \notin files
           /\ \E ok \in BOOLEAN, failAt \in 0..Cardinality(AllPaths) :
                LET b == download_begin(Disk, Meta, repo[p], repo_file_path,
                                        ok, failAt)
                IN  /\ SetDisk(b.d)
                    /\ SetMeta(p, b.m)
                    /\ log' = [log EXCEPT ![p] = @ \o
                           warnings(matches(repo_files_cache[repo[p]],
                                            potential_filename),
                                    potential_filename) \o
                           (IF b.called
                            THEN << [c |-> potential_filename,
                                     op |-> "ensure_space", path |-> <<>>,
                                     n |-> b.size, free |-> free,
                                     del |-> b.deleted] >>
                            ELSE <<>>) \o
                           IF b.raised THEN <<>>
                           ELSE << Event(potential_filename, "fetch",
                                         repo_file_path, 0) >>]
                    /\ IF b.raised
                       THEN /\ pc' = [pc EXCEPT ![p] = "failed"]
                            /\ UNCHANGED cur
                       ELSE /\ pc' = [pc EXCEPT ![p] = "fetching"]
                            /\ cur' = [cur EXCEPT ![p] = repo_file_path]
    /\ running' = "none"
    /\ UNCHANGED <<clock, obj, repo, todo, downloaded_paths, env, again>>

\* The await of hf_hub_download ends with the file: lines 129-141 and 198
FetchReturn(p) ==
    /\ pc[p] = "fetching"
    /\ running = "none"
    /\ CanFetch(Disk, cur[p])
    /\ LET h == hf_hub_download(Disk, cur[p], clock)
           potential_filename == Head(todo[p])
       IN  /\ SetDisk(download_end(h.d, h.ret, clock))
           /\ downloaded_paths' = [downloaded_paths EXCEPT
                                      ![p] = Append(@, h.ret)]
           /\ log' = [log EXCEPT ![p] = @ \o
                  << Event(potential_filename, "touch", h.ret, 0),
                     Event(potential_filename, "append", h.ret, 0) >>]
    /\ pc' = [pc EXCEPT ![p] = "loop"]
    /\ running' = p
    /\ todo' = [todo EXCEPT ![p] = Tail(@)]
    /\ cur' = [cur EXCEPT ![p] = <<>>]
    /\ UNCHANGED <<metavars, clock, obj, repo, listed, env, again>>

\* the end of the await with an exception as it would be if line 197 were
\* in a try block that logs the exception and goes on with the next
\* candidate
FetchRaise_skips(p) ==
    /\ pc[p] = "fetching"
    /\ running = "none"
    /\ pc' = [pc EXCEPT ![p] = "loop"]
    /\ running' = p
    /\ todo' = [todo EXCEPT ![p] = Tail(@)]
    /\ cur' = [cur EXCEPT ![p] = <<>>]
    /\ UNCHANGED <<diskvars, metavars, clock, obj, repo, downloaded_paths,
                   log, listed, env, again>>

\* The await of hf_hub_download ends with an exception, which nothing
\* catches: the invocation ends with it
FetchRaise(p) ==
    /\ pc[p] = "fetching"
    /\ running = "none"
    /\ pc' = [pc EXCEPT ![p] = "failed"]
    /\ cur' = [cur EXCEPT ![p] = <<>>]
    /\ UNCHANGED <<diskvars, metavars, clock, obj, repo, todo,
                   downloaded_paths, running, log, listed, env, again>>

\* The caller has the result or the exception; the invocation is over
Finish(p) ==
    /\ pc[p] \in {"done", "failed"}
    /\ pc' = [pc EXCEPT ![p] = "idle"]
    /\ obj' = [obj EXCEPT ![p] = NoObj]
    /\ repo' = [repo EXCEPT ![p] = "r1"]
    /\ todo' = [todo EXCEPT ![p] = <<>>]
    /\ downloaded_paths' = [downloaded_paths EXCEPT ![p] = <<>>]
    /\ log' = [log EXCEPT ![p] = <<>>]
    /\ listed' = [listed EXCEPT ![p] = <<>>]
    /\ again' = [again EXCEPT ![p] = <<>>]
    /\ UNCHANGED <<diskvars, metavars, clock, cur, running, env>>

\* time passes
Tick ==
    /\ clock < MaxClock
    /\ clock' = clock + 1
    /\ UNCHANGED <<diskvars, metavars, callvars, env, again>>

\* the files that other programs create in the cache root
ForeignPaths == {StrayPath}

\* another program creates a file
ExternalCreate ==
    /\ env < MaxEnv
    /\ \E f \in ForeignPaths \ files :
         /\ free >= getsize(f)
         /\ files' = files \cup {f}
         /\ atime' = Put(atime, f, clock)
         /\ free' = free - getsize(f)
    /\ env' = env + 1
    /\ again' = NoRepeat
    /\ UNCHANGED <<clock, file_access_times, metavars, callvars>>

\* another program deletes a file
ExternalDelete ==
    /\ env < MaxEnv
    /\ \E f \in files :
         /\ files' = files \ {f}
         /\ atime' = Drop(atime, {f})
         /\ free' = free + getsize(f)
    /\ env' = env + 1
    /\ again' = NoRepeat
    /\ UNCHANGED <<clock, file_access_times, metavars, callvars>>

\* one step of the invocation p
Step(p) ==
    \/ Call(p)
    \/ Return(p)
    \/ Skip(p)
    \/ Hit(p)
    \/ Miss(p)
    \/ FetchReturn(p)
    \/ FetchRaise(p)
    \/ Finish(p)

Environment ==
    \/ Tick
    \/ ExternalCreate
    \/ ExternalDelete

\* One download_models invocation at a time
Next ==
    \/ Initialize
    \/ Step("p1")
    \/ Environment

Spec == Init /\ [][Next]_vars

\* the application calls download_models for repository r1 on an object
\* that holds a candidate
ConcCall(p) ==
    /\ pc[p] = "idle"
    /\ \E o \in {x \in Inputs : find_all_strings(x) # {}} :
          Start(p, o, "r1", <<>>)

\* Two download_models invocations for one repository on the one event
\* loop, with no other program at work and within one tick of the clock
NextConc ==
    \/ Initialize
    \/ \E p \in Procs :
          \/ ConcCall(p)
          \/ Return(p)
          \/ Skip(p)
          \/ Hit(p)
          \/ Miss(p)
          \/ FetchReturn(p)
          \/ FetchRaise(p)
          \/ Finish(p)

SpecConc == Init /\ [][NextConc]_vars

\* One invocation at a time, and the application may repeat a call
NextRepeat ==
    \/ Next
    \/ CallAgain("p1")

SpecRepeat == Init /\ [][NextRepeat]_vars

\* the application calls download_models on an object of MineInputs
MineCall(p) ==
    /\ pc[p] = "idle"
    /\ \E o \in MineInputs : Start(p, o, "r1", <<>>)

\* download_models on every object of MineInputs, followed from the call
\* to the for loop (lines 161-173) or to the end of the invocation
NextMine ==
    \/ MineCall("p1")
    \/ Finish("p1")

SpecMine == Init /\ [][NextMine]_vars

\* ================================================================= claims
\* The step in which invocation p runs delete_old_files_until_space: the
\* miss branch, which leaves the loop for the await or for an exception.
EvictionStep(p) == pc[p] = "loop" /\ pc'[p] \in {"fetching", "failed"}

\* The eviction candidates of section 4.2: on disk, in the cache root
\* directory, and in the AccessTimeIndex.
EvictionCandidates ==
    {f \in DOMAIN file_access_times : f \in files /\ UnderRoot(f)}

\* the record of the delete_old_files_until_space call p made last
LastEnsure(p) ==
    LET at == {i \in 1..Len(log[p]) : log[p][i].op = "ensure_space"}
    IN  log[p][CHOOSE i \in at : \A j \in at : j <= i]

HasEvicted(p) ==
    /\ \E i \in 1..Len(log[p]) : log[p][i].op = "ensure_space"
    /\ LastEnsure(p).del # <<>>

\* the repository files whose basename is the candidate c
MatchesIn(repo_id, c) ==
    {i \in 1..NSiblings(repo_id) : basename(Siblings(repo_id)[i].rfilename) = c}

UniqueMatch(repo_id, c) == Cardinality(MatchesIn(repo_id, c)) = 1

TheMatch(repo_id, c) ==
    Siblings(repo_id)[CHOOSE i \in MatchesIn(repo_id, c) : TRUE]

\* the events the step adds to the call record of p
NewEvents(p) == SubSeq(log'[p], Len(log[p]) + 1, Len(log'[p]))

\* the step makes invocation p call op
Called(p, op) ==
    \E i \in 1..Len(NewEvents(p)) : NewEvents(p)[i].op = op

\* the step makes invocation p call op, and no recorded call after it
LastCalled(p, op) ==
    /\ Len(log'[p]) > Len(log[p])
    /\ log'[p][Len(log'[p])].op = op

\* C1: an eviction deletes in ascending order of recorded access time:
\* every file it deletes is an eviction candidate, and its recorded time
\* is at most that of every candidate the call leaves.
C1_OldestFirst ==
    [][\A p \in Procs :
         EvictionStep(p) =>
            \A f \in files \ files' :
               /\ f \in EvictionCandidates
               /\ \A g \in EvictionCandidates \ (files \ files') :
                     file_access_times[f] <= file_access_times[g]]_vars

\* an eviction has deleted a file and left another candidate
C1_Witness ==
    \E p \in Procs :
       /\ pc[p] = "fetching"
       /\ HasEvicted(p)
       /\ EvictionCandidates # {}

C3_NoEvictionWhenRoom ==
    [][\A p \in Procs :
         (/\ EvictionStep(p)
          /\ Called(p, "ensure_space")
          /\ free >= LastEnsure(p)'.n + MINIMUM_FREE_SPACE_GB)
         => /\ files' = files
            /\ file_access_times' = file_access_times]_vars

\* the call found room while there were files it could have deleted
C3_Witness ==
    \E p \in Procs :
       /\ pc[p] = "fetching"
       /\ LastEnsure(p).free >= LastEnsure(p).n + MINIMUM_FREE_SPACE_GB
       /\ LastEnsure(p).del = <<>>
       /\ EvictionCandidates # {}

\* what invocation p has done for the candidate c
EventsOf(p, c) == SelectSeq(log[p], LAMBDA e : e.c = c)

MissOps == <<"ensure_space", "fetch", "touch", "append">>

\* C4: for a candidate with exactly one match that is absent locally, the
\* invocation calls delete_old_files_until_space once, with the size the
\* repository lists for that file, then hf_hub_download once for that
\* file, then update_access_time once for the downloaded path, then
\* appends the path; nothing is touched or appended while the download
\* is awaited.
C4_MissSequence ==
    \A p \in Procs :
       \A c \in find_all_strings(obj[p]) :
          LET E == EventsOf(p, c)
              f == TheMatch(repo[p], c)
              path == join(local_base_dir, f.rfilename)
          IN  (/\ pc[p] # "idle"
               /\ UniqueMatch(repo[p], c)
               /\ E # <<>>
               /\ E[1].op = "ensure_space")
              => /\ Len(E) \in {1, 2, 4}
                 /\ \A i \in 1..Len(E) : E[i].op = MissOps[i]
                 /\ E[1].n = f.size
                 /\ Len(E) >= 2 => E[2].path = f.rfilename
                 /\ Len(E) = 4 => E[3].path = path /\ E[4].path = path
                 /\ Len(E) < 4 => path \notin Range(downloaded_paths[p])
                 /\ (pc[p] = "fetching" /\ Head(todo[p]) = c) => Len(E) = 2
                 /\ (pc[p] \in {"loop", "fetching", "done"}
                        /\ c \notin Range(todo[p])) => Len(E) = 4

\* a candidate with one match went through eviction check, download,
\* touch and append
C4_Witness ==
    \E p \in Procs :
       \E c \in find_all_strings(obj[p]) :
          /\ pc[p] = "done"
          /\ UniqueMatch(repo[p], c)
          /\ Len(EventsOf(p, c)) = 4
          /\ EventsOf(p, c)[1].op = "ensure_space"

\* C5: the pass of the loop for a candidate with exactly one match that
\* exists locally appends its local path to the result, sets its index
\* entry and its access time on disk to the current time, and does
\* nothing else: no eviction, no download, no listing.
C5_HitTouchesOnce ==
    [][\A p \in Procs :
         (/\ pc[p] = "loop"
          /\ todo[p] # <<>>
          /\ todo'[p] = Tail(todo[p])
          /\ UniqueMatch(repo[p], Head(todo[p]))
          /\ join(local_base_dir,
                  TheMatch(repo[p], Head(todo[p])).rfilename) \in files)
         => LET c == Head(todo[p])
                path == join(local_base_dir, TheMatch(repo[p], c).rfilename)
            IN  /\ downloaded_paths'[p] = Append(downloaded_paths[p], path)
                /\ file_access_times' = Put(file_access_times, path, clock)
                /\ atime' = Put(atime, path, clock)
                /\ files' = files
                /\ free' = free
                /\ listed' = listed
                /\ pc'[p] = "loop"
                /\ Len(log'[p]) = Len(log[p]) + 2
                /\ \A i \in 1..2 :
                      /\ log'[p][Len(log[p]) + i].c = c
                      /\ log'[p][Len(log[p]) + i].path = path
                      /\ log'[p][Len(log[p]) + i].op =
                             <<"touch", "append">>[i]]_vars

\* a candidate with one match was served from the local file
C5_Witness ==
    \E p \in Procs :
       \E c \in find_all_strings(obj[p]) :
          /\ pc[p] # "idle"
          /\ UniqueMatch(repo[p], c)
          /\ EventsOf(p, c) # <<>>
          /\ EventsOf(p, c)[1].op = "touch"
          /\ EventsOf(p, c)[1].path \in DOMAIN file_access_times
          /\ file_access_times[EventsOf(p, c)[1].path] = clock

\* C8: once a repo_id is in the file-list cache, no step calls
\* api.model_info for it again, and both of its cache entries stay as
\* they are.
C8_ListedOnce ==
    [][\A r \in DOMAIN repo_files_cache :
         /\ \A p \in Procs :
               \A i \in 1..Len(listed'[p]) :
                  listed'[p][i] = r =>
                     (i <= Len(listed[p]) /\ listed[p][i] = r)
         /\ r \in DOMAIN repo_files_cache'
         /\ repo_files_cache'[r] = repo_files_cache[r]
         /\ r \in DOMAIN repo_file_sizes_cache'
         /\ repo_file_sizes_cache'[r] = repo_file_sizes_cache[r]]_vars

\* an invocation got the file list and a size without any listing call
C8_Witness ==
    \E p \in Procs :
       /\ pc[p] = "fetching"
       /\ listed[p] = <<>>
       /\ repo[p] \in DOMAIN repo_files_cache

\* C9: a repo_id is in the file-list cache exactly if it is in the size
\* cache, and then the size cache has a size for each listed filename.
C9_CachesTogether ==
    /\ DOMAIN repo_files_cache = DOMAIN repo_file_sizes_cache
    /\ \A r \in DOMAIN repo_files_cache :
          DOMAIN repo_file_sizes_cache[r] = Range(repo_files_cache[r])

\* an invocation listed a repository and then read a size of it
C9_Witness ==
    \E p \in Procs :
       /\ pc[p] = "fetching"
       /\ listed[p] # <<>>
       /\ repo[p] \in DOMAIN repo_file_sizes_cache
       /\ LastEnsure(p).n > 0

\* C10: an index entry goes exactly when an eviction deletes its file:
\* the eviction step removes the entry of every file it deletes, and no
\* step removes an entry of a file that an eviction did not delete in it.
C10_EntryGoesWithFile ==
    [][/\ \A p \in Procs :
             EvictionStep(p) =>
                \A f \in files \ files' : f \notin DOMAIN file_access_times'
       /\ \A f \in DOMAIN file_access_times \ DOMAIN file_access_times' :
             /\ f \in files \ files'
             /\ \E p \in Procs : EvictionStep(p)]_vars

\* an eviction has deleted files, and their entries are gone with them
C10_Witness ==
    \E p \in Procs :
       /\ HasEvicted(p)
       /\ \A f \in Range(LastEnsure(p).del) :
             f \notin files /\ f \notin DOMAIN file_access_times

Idle == running = "none" /\ \A p \in Procs : pc[p] = "idle"

\* C6: a download_models call that returns, followed at once by a call
\* with the same obj and repo_id, makes the second call give no file to
\* hf_hub_download and return the same set of paths.
C6_Idempotent ==
    \A p \in Procs :
       again[p] # <<>> =>
          /\ \A i \in 1..Len(log[p]) : log[p][i].op # "fetch"
          /\ pc[p] = "done" => Range(downloaded_paths[p]) = again[p][1]

\* C7: from one state, two iteration orders of the same candidates make
\* download_models give the same set of files to hf_hub_download.
C7_OrderIndependent ==
    Idle =>
       \A o \in Inputs, r \in Repos :
          \A o1, o2 \in Orders(find_all_strings(o)) :
             LET one == download_models_run(Disk, Meta, o, r, o1, clock)
                 two == download_models_run(Disk, Meta, o, r, o2, clock)
             IN  (~one.raised /\ ~two.raised)
                    => Range(one.fetched) = Range(two.fetched)

\* the state in which invocation p stands after api.model_info raised at
\* line 169: it made the listing call and nothing else
ListingFailed(p) ==
    pc[p] = "failed" /\ log[p] = <<>> /\ listed[p] = <<repo[p]>>

\* C11: when api.model_info raises in the get_repo_files call of line 169,
\* the invocation ends with the exception having processed no candidate
\* (files, free space, index, result and call record are as before), and
\* neither cache has an entry for the repo_id, then or afterwards; a call
\* for a repo_id that is not in the file-list cache calls api.model_info.
C11_ListingFailureAborts ==
    [][\A p \in Procs :
         /\ (pc[p] = "idle" /\ pc'[p] = "failed")
               => /\ ListingFailed(p)'
                  /\ UNCHANGED <<diskvars, metavars>>
                  /\ downloaded_paths'[p] = <<>>
                  /\ todo'[p] = <<>>
                  /\ repo'[p] \notin DOMAIN repo_files_cache'
                  /\ repo'[p] \notin DOMAIN repo_file_sizes_cache'
         /\ ListingFailed(p)
               => /\ repo[p] \notin DOMAIN repo_files_cache'
                  /\ repo[p] \notin DOMAIN repo_file_sizes_cache'
         /\ (/\ pc[p] = "idle"
             /\ pc'[p] # "idle"
             /\ find_all_strings(obj'[p]) # {}
             /\ repo'[p] \notin DOMAIN repo_files_cache)
               => listed'[p] = <<repo'[p]>>]_vars

\* a listing failed while there were files to evict and a cached repo_id
C11_Witness ==
    \E p \in Procs :
       /\ ListingFailed(p)
       /\ EvictionCandidates # {}
       /\ repo_files_cache # EmptyDict

\* the sizes of the files of S added up
RECURSIVE SumSizes(_)
SumSizes(S) ==
    IF S = {} THEN 0
    ELSE LET f == CHOOSE x \in S : TRUE
         IN  getsize(f) + SumSizes(S \ {f})

\* C12: when os.path.getsize or os.remove raises for a candidate, the
\* eviction ends there with the exception, which ends the invocation
\* before any download: the files deleted so far are gone from the disk
\* and from the index and did not cover the deficit, and every other
\* file and index entry is as before, among them the candidate at which
\* the exception was raised, which is no older than the deleted ones.
C12_EvictionErrorStops ==
    [][\A p \in Procs :
         (/\ EvictionStep(p)
          /\ pc'[p] = "failed"
          /\ Len(log'[p]) > Len(log[p]))
         => LET e == log'[p][Len(log'[p])]
                gone == Range(e.del)
            IN  /\ LastCalled(p, "ensure_space")
                /\ \A i \in 1..Len(NewEvents(p)) :
                      NewEvents(p)[i].op \in {"warning", "ensure_space"}
                /\ gone \subseteq EvictionCandidates
                /\ files' = files \ gone
                /\ file_access_times' = Drop(file_access_times, gone)
                /\ free' = free + SumSizes(gone)
                /\ SumSizes(gone) < e.n + MINIMUM_FREE_SPACE_GB - free
                /\ \E f \in EvictionCandidates \ gone :
                      \A g \in gone :
                         file_access_times[g] <= file_access_times[f]
                /\ downloaded_paths'[p] = downloaded_paths[p]
                /\ cur'[p] = cur[p]]_vars

\* an eviction deleted a file and then ended with an exception
C12_Witness ==
    \E p \in Procs :
       /\ pc[p] = "failed"
       /\ log[p] # <<>>
       /\ log[p][Len(log[p])].op = "ensure_space"
       /\ log[p][Len(log[p])].del # <<>>
       /\ EvictionCandidates # {}

\* the first repository file, in listing order, whose basename is c
FirstMatch(repo_id, c) ==
    Siblings(repo_id)[CHOOSE i \in MatchesIn(repo_id, c) :
                         \A j \in MatchesIn(repo_id, c) : i <= j]

\* C13: for a candidate whose basename matches several repository files,
\* every invocation first gives logging.warning the number of matches and
\* the first match in listing order, once, and then every call it makes
\* for the candidate (eviction size, download, touch, append) is for that
\* first match; a candidate with one match gets no warning.
C13_FirstMatchWarned ==
    \A p \in Procs :
       \A c \in find_all_strings(obj[p]) :
          LET E == EventsOf(p, c)
              n == Cardinality(MatchesIn(repo[p], c))
              first == FirstMatch(repo[p], c)
              path == join(local_base_dir, first.rfilename)
          IN  (pc[p] # "idle" /\ E # <<>>)
              => /\ n >= 1
                 /\ n = 1 => \A i \in 1..Len(E) : E[i].op # "warning"
                 /\ n > 1 =>
                      /\ E[1].op = "warning"
                      /\ E[1].n = n
                      /\ E[1].path = first.rfilename
                      /\ \A i \in 2..Len(E) :
                            /\ E[i].op # "warning"
                            /\ E[i].op \in {"touch", "append"}
                                  => E[i].path = path
                            /\ E[i].op = "fetch"
                                  => E[i].path = first.rfilename
                            /\ E[i].op = "ensure_space"
                                  => E[i].n = first.size

\* a call that found the listing in the cache resolved a candidate with
\* several matches
C13_Witness ==
    \E p \in Procs :
       \E c \in find_all_strings(obj[p]) :
          /\ pc[p] = "done"
          /\ listed[p] = <<>>
          /\ Cardinality(MatchesIn(repo[p], c)) > 1
          /\ Len(EventsOf(p, c)) >= 3
          /\ EventsOf(p, c)[1].op = "warning"
          /\ EventsOf(p, c)[Len(EventsOf(p, c))].op = "append"

\* the string leaves of a value: what is reached through the values of
\* mappings and the elements of sequences
RECURSIVE StringLeaves(_)
StringLeaves(data) ==
    IF data.t = "str" THEN {data.s}
    ELSE UNION {StringLeaves(data.kids[i]) : i \in 1..Len(data.kids)}

\* nothing but whitespace
Blank(s) == \A i \in 1..Len(s) : s[i] \in Whitespace

\* C14: a download_models call on an object whose string leaves are all
\* empty or whitespace returns the empty list at once: it calls neither
\* api.model_info nor anything else, and the caches, the index, the
\* files and the free space are as before.
C14_NoStringsNoCalls ==
    [][\A p \in Procs :
         (/\ pc[p] = "idle"
          /\ pc'[p] # "idle"
          /\ \A s \in StringLeaves(obj'[p]) : Blank(s))
         => /\ pc'[p] = "done"
            /\ downloaded_paths'[p] = <<>>
            /\ listed'[p] = <<>>
            /\ log'[p] = <<>>
            /\ UNCHANGED <<diskvars, metavars>>]_vars

\* a call on an object with only a blank string leaf has returned, for a
\* repo_id that is not in the cache and with files in the index
C14_Witness ==
    \E p \in Procs :
       /\ pc[p] = "done"
       /\ StringLeaves(obj[p]) # {}
       /\ \A s \in StringLeaves(obj[p]) : Blank(s)
       /\ downloaded_paths[p] = <<>>
       /\ repo[p] \notin DOMAIN repo_files_cache
       /\ EvictionCandidates # {}

\* C15: find_all_strings returns exactly the string leaves of the object
\* (reached through dict values and list elements, never keys) that are
\* not blank, each as it stands, untrimmed; numbers, booleans and null
\* add nothing.  The for loop iterates exactly that set, and the call
\* takes the early return exactly if it is empty.
C15_MinedStrings ==
    [][\A p \in Procs :
         (pc[p] = "idle" /\ pc'[p] # "idle")
         => LET mined == {x \in StringLeaves(obj'[p]) : ~Blank(x)}
            IN  /\ find_all_strings(obj'[p]) = mined
                /\ pc'[p] = "done" <=> mined = {}
                /\ pc'[p] = "loop"
                      => /\ Range(todo'[p]) = mined
                         /\ Len(todo'[p]) = Cardinality(mined)]_vars

\* the miner ran on a dict that holds a list with an untrimmed string and
\* a blank string, and a number: only the untrimmed string is iterated
C15_Witness ==
    \E p \in Procs :
       /\ pc[p] = "loop"
       /\ obj[p].t = "dict"
       /\ Len(obj[p].kids) = 2
       /\ obj[p].kids[1].t = "list"
       /\ obj[p].kids[2].t = "num"
       /\ \E x \in StringLeaves(obj[p]) : Blank(x)
       /\ \E x \in Range(todo[p]) : strip(x) # x
       /\ \A i \in 1..Len(obj[p].keys) : obj[p].keys[i] \notin Range(todo[p])

\* the sizes of the first k files of the list l added up
RECURSIVE SumFirst(_, _)
SumFirst(l, k) ==
    IF k = 0 THEN 0 ELSE getsize(l[k]) + SumFirst(l, k - 1)

\* C16: an eviction that no exception ends deletes files only as long as
\* the sizes deleted so far are below the deficit needed - free, so what
\* it deleted without the last file is below the deficit; it ends when
\* the deficit is covered or when no candidate is left, and in both
\* cases the invocation goes on to call hf_hub_download.
C16_StopsAtDeficit ==
    [][\A p \in Procs :
         (/\ EvictionStep(p)
          /\ Called(p, "ensure_space")
          /\ pc'[p] = "fetching")
         => LET e == LastEnsure(p)'
                deficit == e.n + MINIMUM_FREE_SPACE_GB - free
            IN  /\ files \ files' = Range(e.del)
                /\ Len(e.del) = Cardinality(Range(e.del))
                /\ free' = free + SumFirst(e.del, Len(e.del))
                /\ \A k \in 0..(Len(e.del) - 1) :
                      SumFirst(e.del, k) < deficit
                /\ \/ SumFirst(e.del, Len(e.del)) >= deficit
                   \/ EvictionCandidates \ Range(e.del) = {}
                /\ LastCalled(p, "fetch")]_vars

\* an eviction deleted every candidate without covering the deficit, and
\* the download was started
C16_Witness ==
    \E p \in Procs :
       /\ pc[p] = "fetching"
       /\ HasEvicted(p)
       /\ LastEnsure(p).free + SumFirst(LastEnsure(p).del,
                                        Len(LastEnsure(p).del))
             < LastEnsure(p).n + MINIMUM_FREE_SPACE_GB
       /\ EvictionCandidates = {}

\* the files of the cache root that the index does not hold
Unindexed == {f \in files : UnderRoot(f) /\ f \notin DOMAIN file_access_times}

\* C17: no eviction deletes a file of the cache root that has no entry in
\* _file_access_times, whatever the deficit.
C17_UnindexedNeverEvicted ==
    [][\A p \in Procs :
         EvictionStep(p) => \A f \in Unindexed : f \in files']_vars

\* after initialize_access_times another program created a file in the
\* cache root; an eviction then deleted every candidate without covering
\* the deficit, and the file is still there
C17_Witness ==
    \E p \in Procs :
       /\ HasEvicted(p)
       /\ pc[p] = "fetching"
       /\ LastEnsure(p).free + SumFirst(LastEnsure(p).del,
                                        Len(LastEnsure(p).del))
             < LastEnsure(p).n + MINIMUM_FREE_SPACE_GB
       /\ StrayPath \in Unindexed
       /\ atime[StrayPath] # InitATime[StrayPath]

\* C18: nothing keeps an invocation from downloading a file that another
\* invocation is downloading.  While q awaits hf_hub_download for a file
\* that is still absent, the pass of p for a candidate resolving to the
\* same file of the same repository finds it missing, calls
\* delete_old_files_until_space and then hf_hub_download for it (unless
\* the eviction raises), and q stays in its await.
C18_NoMutualExclusion ==
    [][\A p, q \in Procs :
         (/\ p # q
          /\ pc[q] = "fetching"
          /\ repo[q] = repo[p]
          /\ join(local_base_dir, cur[q]) \notin files
          /\ pc[p] = "loop"
          /\ running = p
          /\ todo[p] # <<>>
          /\ MatchesIn(repo[p], Head(todo[p])) # {}
          /\ FirstMatch(repo[p], Head(todo[p])).rfilename = cur[q])
         => /\ Called(p, "ensure_space")
            /\ LastEnsure(p)'.n = FirstMatch(repo[p], Head(todo[p])).size
            /\ \/ pc'[p] = "failed"
               \/ /\ pc'[p] = "fetching"
                  /\ cur'[p] = cur[q]
                  /\ LastCalled(p, "fetch")
            /\ pc'[q] = "fetching"
            /\ cur'[q] = cur[q]]_vars

\* both invocations found the same file missing, both evictions deleted
\* files, and both downloads of the file are in flight
C18_Witness ==
    /\ pc["p1"] = "fetching"
    /\ pc["p2"] = "fetching"
    /\ repo["p1"] = repo["p2"]
    /\ cur["p1"] = cur["p2"]
    /\ join(local_base_dir, cur["p1"]) \notin files
    /\ HasEvicted("p1")
    /\ HasEvicted("p2")

\* C19: when a download_models call returns, with no file created or
\* deleted by another program, every path of the list it returns is a
\* file on disk with an entry in _file_access_times.
C19_ReturnedPathsExist ==
    \A p \in Procs :
       (pc[p] = "done" /\ env = 0)
       => \A path \in Range(downloaded_paths[p]) :
             path \in files /\ path \in DOMAIN file_access_times

\* C20: when the await of hf_hub_download ends without the touch of line
\* 131, that is with an exception, the invocation ends with it: the
\* step changes neither the index nor the caches, appends nothing, and
\* the invocation, once failed, makes no further call, leaves the
\* remaining candidates unprocessed and never returns a list.
C20_FetchFailureFatal ==
    [][\A p \in Procs :
         /\ (/\ pc[p] = "fetching"
             /\ pc'[p] # "fetching"
             /\ ~Called(p, "touch"))
            => /\ pc'[p] = "failed"
               /\ file_access_times' = file_access_times
               /\ UNCHANGED metavars
               /\ log'[p] = log[p]
               /\ downloaded_paths'[p] = downloaded_paths[p]
               /\ todo'[p] = todo[p]
         /\ pc[p] = "failed"
            => /\ pc'[p] \in {"failed", "idle"}
               /\ pc'[p] = "failed"
                    => /\ log'[p] = log[p]
                       /\ downloaded_paths'[p] = downloaded_paths[p]
                       /\ todo'[p] = todo[p]
                       /\ listed'[p] = listed[p]]_vars

\* a download failed with another candidate still to process; the file is
\* neither on disk nor in the index
C20_Witness ==
    \E p \in Procs :
       /\ pc[p] = "failed"
       /\ log[p] # <<>>
       /\ log[p][Len(log[p])].op = "fetch"
       /\ Len(todo[p]) >= 2
       /\ LET path == join(local_base_dir, log[p][Len(log[p])].path)
          IN  path \notin files /\ path \notin DOMAIN file_access_times

====
